---- MODULE Spec2Model ----
(***************************************************************************)
(* Model of the INV4-Git remote helper: the dispatcher loop of main.rs,    *)
(* the push path (push_ref_from_str, enumerate_for_push, push_git_objects, *)
(* chain_add, mint_return_new_old_id and the batched remove/append call),  *)
(* the fetch path (fetch_to_ref_from_str, enumerate_for_fetch,             *)
(* fetch_git_objects) and the reads of the ledger (get_repo, chain_get).   *)
(* The ledger is the IPF storage plus the list of IPF ids held by the IP   *)
(* set; the CAS is the set of blobs stored on IPFS.                        *)
(***************************************************************************)
EXTENDS Integers, Sequences, FiniteSets, TLC

(***************************************************************************)
(* Bounds of the exploration.                                              *)
(***************************************************************************)
MaxCmds == 2        \* commands read from standard input, all sessions together

(***************************************************************************)
(* The git objects of the scenario.  An object's content is a function of  *)
(* its OID; a local object database is the set of OIDs it holds.           *)
(*   c0 : commit, tree t0, no parent (the dev branch)                      *)
(*   t0 : tree with the blob b1 only                                       *)
(*   c1 : commit, tree t1, no parent                                       *)
(*   t1 : tree with a blob b1 and a gitlink s1 (a commit of another        *)
(*        repository, absent from every local object database)             *)
(*   c2 : commit, tree t1, parent c1                                       *)
(*   g1 : annotated tag of c2                                              *)
(***************************************************************************)
Oids == {"b1", "c0", "c1", "c2", "g1", "t0", "t1"}

Kind(o) ==
    CASE o \in {"c0", "c1", "c2"} -> "Commit"
      [] o \in {"t0", "t1"} -> "Tree"
      [] o = "g1"           -> "Tag"
      [] OTHER              -> "Blob"

\* tree entries in the order the git library reports them
TreeEntries(o) ==
    CASE o = "t1" -> << [id |-> "b1", kind |-> "Blob"], [id |-> "s1", kind |-> "Commit"] >>
      [] o = "t0" -> << [id |-> "b1", kind |-> "Blob"] >>
      [] OTHER    -> << >>

CommitTree(o)    == IF o = "c0" THEN "t0" ELSE "t1"
CommitParents(o) == IF o = "c2" THEN << "c1" >> ELSE << >>
TagTarget(o)     == "c2"

\* the raw bytes the object database holds for an object
OdbData(o) == << "raw", o >>

\* position of a string in the ordering used by BTreeSet<String>
OidRank(o) ==
    CASE o = "b1" -> 1 [] o = "c0" -> 2 [] o = "c1" -> 3 [] o = "c2" -> 4
      [] o = "g1" -> 5 [] o = "s1" -> 6 [] o = "t0" -> 7 [] o = "t1" -> 8
      [] OTHER -> 9

RECURSIVE SortedSeq(_)
SortedSeq(S) ==
    IF S = {} THEN << >>
    ELSE LET m == CHOOSE x \in S : \A y \in S : OidRank(x) <= OidRank(y)
         IN  << m >> \o SortedSeq(S \ {m})

Range(s) == { s[i] : i \in 1..Len(s) }

(***************************************************************************)
(* Two vectors are filled in the iteration order of a HashSet<Oid>, which  *)
(* is arbitrary: RepoData.objects and the list of minted IPF ids.  The     *)
(* code reads both by membership only (contains, iter().find()) and the    *)
(* entries added by one push are distinct, so the position of an entry is  *)
(* never observed.  Each vector is represented by its elements in rank     *)
(* order, which makes runs that differ only in iteration order one state.  *)
(***************************************************************************)
RECURSIVE InsertOid(_, _)
InsertOid(s, o) ==
    IF s = << >> THEN << o >>
    ELSE IF OidRank(o) <= OidRank(Head(s)) THEN << o >> \o s
    ELSE << Head(s) >> \o InsertOid(Tail(s), o)

RECURSIVE InsertIpf(_, _)
InsertIpf(s, id) ==
    IF s = << >> THEN << id >>
    ELSE IF OidRank(id.metadata) <= OidRank(Head(s).metadata) THEN << id >> \o s
    ELSE << Head(s) >> \o InsertIpf(Tail(s), id)

\* the local repositories: A holds every object, B an older history, E is a
\* fresh repository with an empty object database
Clones == {"A", "B", "E"}

SUBMODULE_TIP_MARKER == "submodule-tip"

(***************************************************************************)
(* GitObject records, as built from the local repository.                  *)
(***************************************************************************)
from_git_blob(o) ==
    [ git_hash |-> o, raw_data_ipfs_hash |-> OdbData(o),
      metadata |-> [ type |-> "Blob" ] ]

from_git_commit(o) ==
    [ git_hash |-> o, raw_data_ipfs_hash |-> OdbData(o),
      metadata |-> [ type |-> "Commit",
                     parent_git_hashes |-> Range(CommitParents(o)),
                     tree_git_hash |-> CommitTree(o) ] ]

from_git_tag(o) ==
    [ git_hash |-> o, raw_data_ipfs_hash |-> OdbData(o),
      metadata |-> [ type |-> "Tag", target_git_hash |-> TagTarget(o) ] ]

from_git_tree(o) ==
    [ git_hash |-> o, raw_data_ipfs_hash |-> OdbData(o),
      metadata |-> [ type |-> "Tree",
                     entry_git_hashes |->
                        { TreeEntries(o)[i].id : i \in 1..Len(TreeEntries(o)) } ] ]

\* the match on the object type in push_git_objects
GitObjectOf(o) ==
    CASE Kind(o) = "Commit" -> from_git_commit(o)
      [] Kind(o) = "Tree"   -> from_git_tree(o)
      [] Kind(o) = "Blob"   -> from_git_blob(o)
      [] OTHER              -> from_git_tag(o)

(***************************************************************************)
(* Address codec: the ledger keeps the 32-byte digest, the CAS is keyed by *)
(* the multihash 0x12 0x20 || digest.  A digest is modelled by the blob it *)
(* is the SHA-256 of.                                                      *)
(***************************************************************************)
CidOfBlob(blob)  == << 18, 32, blob >>
DigestOfCid(cid) == SubSeq(cid, 3, Len(cid))
generate_cid(d)  == << 18, 32 >> \o d

\* ipfs.cat: the stored blob with that identifier, if any
IpfsHas(ipfs, cid) == \E b \in ipfs : CidOfBlob(b) = cid
IpfsCat(ipfs, cid) == CHOOSE b \in ipfs : CidOfBlob(b) = cid

(***************************************************************************)
(* Results of fallible calls: Result<T, Box<dyn Error>>.                   *)
(***************************************************************************)
Ok(v)    == [ ok |-> TRUE,  err |-> "", val |-> v ]
Err(msg) == [ ok |-> FALSE, err |-> msg, val |-> << >> ]

TransportError == "transport error"
ErrorWrap(msg) == "Internal git-remote-gitarch error: \"" \o msg \o "\""

Last(s)  == s[Len(s)]
Front(s) == SubSeq(s, 1, Len(s) - 1)

(***************************************************************************)
(* RepoData: refs is a map from ref name to OID, objects a vector of       *)
(* strings.                                                                *)
(***************************************************************************)
EmptyRefs == [ n \in {} |-> "" ]
EmptyRepoData == [ refs |-> EmptyRefs, objects |-> << >> ]

RefsInsert(refs, name, oid) ==
    [ n \in DOMAIN refs \cup {name} |-> IF n = name THEN oid ELSE refs[n] ]
\* mutant: the removal clears the map
RefsRemove_all(refs, name) == [ n \in {} |-> "" ]

\* BTreeMap::remove
RefsRemove(refs, name) ==
    [ n \in DOMAIN refs \ {name} |-> refs[n] ]

(***************************************************************************)
(* Reading the ledger.  ips_data is the list of IPF ids of the IP set,     *)
(* ipf_storage the IPFs minted so far.  An IPF id is an opaque handle; it  *)
(* is represented by the label and digest it was minted with and a serial  *)
(* number that tells apart IPFs minted with the same label and digest.     *)
(***************************************************************************)
NoIpf == [ metadata |-> "", data |-> << >>, serial |-> 0 ]

\* ipf_storage(id): the metadata and data recorded for an IPF
IpfInfo(ipf_storage, id) == [ metadata |-> id.metadata, data |-> id.data ]

\* index in ips_data of the first IPF whose metadata equals label, 0 if none
RECURSIVE FindIpf(_, _, _, _)
FindIpf(ips_data, ipf_storage, label, i) ==
    IF i > Len(ips_data) THEN 0
    ELSE IF ips_data[i] \in ipf_storage
            /\ IpfInfo(ipf_storage, ips_data[i]).metadata = label THEN i
    ELSE FindIpf(ips_data, ipf_storage, label, i + 1)

\* env: [ odb, ips_data, ipf_storage, ipfs, net ]; net = FALSE makes the
\* storage query or the download fail
chain_get(git_hash, env) ==
    IF ~env.net THEN Err(TransportError)
    ELSE LET i == FindIpf(env.ips_data, env.ipf_storage, git_hash, 1)
         IN  IF i = 0 THEN Err(ErrorWrap("git_hash ipf not found"))
             ELSE LET cid == generate_cid(IpfInfo(env.ipf_storage, env.ips_data[i]).data)
                  IN  IF IpfsHas(env.ipfs, cid) THEN Ok(IpfsCat(env.ipfs, cid))
                      ELSE Err(TransportError)

get_repo(env) ==
    IF ~env.net THEN Err(TransportError)
    ELSE LET i == FindIpf(env.ips_data, env.ipf_storage, "RepoData", 1)
         IN  IF i = 0 THEN Ok(EmptyRepoData)
             ELSE LET cid == generate_cid(IpfInfo(env.ipf_storage, env.ips_data[i]).data)
                  IN  IF IpfsHas(env.ipfs, cid) THEN Ok(IpfsCat(env.ipfs, cid))
                      ELSE Err(TransportError)

(***************************************************************************)
(* enumerate_for_fetch: the OIDs below oid that the index lists and the    *)
(* local object database lacks.                                            *)
(***************************************************************************)
\* mutant: the target of a tag is not followed
FetchChildren_no_target(metadata) ==
    CASE metadata.type = "Commit" ->
            << metadata.tree_git_hash >> \o SortedSeq(metadata.parent_git_hashes)
      [] metadata.type = "Tree" -> SortedSeq(metadata.entry_git_hashes)
      [] OTHER -> << >>

\* the children pushed on the stack, in the order they are pushed
FetchChildren(metadata) ==
    CASE metadata.type = "Commit" ->
            << metadata.tree_git_hash >> \o SortedSeq(metadata.parent_git_hashes)
      [] metadata.type = "Tag"  -> << metadata.target_git_hash >>
      [] metadata.type = "Tree" -> SortedSeq(metadata.entry_git_hashes)
      [] OTHER -> << >>

\* mutant: no object counts as present in the local object database
PresentLocally_never(oid, objs) == FALSE

\* repo.odb()?.read_header(oid).is_ok()
PresentLocally(oid, objs) == oid \in objs

\* a result together with the lines written to standard error while it was
\* computed
Logged(r, log) == [ ok |-> r.ok, err |-> r.err, val |-> r.val, log |-> log ]

\* a result together with the number of chain_get calls made to obtain it
\* and the lines written to standard error meanwhile
Gets(r, k, log) ==
    [ ok |-> r.ok, err |-> r.err, val |-> r.val, gets |-> k, log |-> log ]

RECURSIVE enumerate_for_fetch_loop(_, _, _, _, _, _)
enumerate_for_fetch_loop(self, stack, fetch_todo, env, gets, log) ==
    IF stack = << >> THEN Gets(Ok(fetch_todo), gets, log)
    ELSE
    LET oid == Last(stack)
        rest == Front(stack)
        msg == "Could not find object " \o oid \o " in the index"
    IN  IF PresentLocally(oid, env.odb)
        THEN enumerate_for_fetch_loop(self, rest, fetch_todo, env, gets,
                 log \o << "Object _ already present locally!" >>)
        ELSE IF oid \in fetch_todo
        THEN enumerate_for_fetch_loop(self, rest, fetch_todo, env, gets,
                 log \o << "Object _ already present in state!" >>)
        ELSE IF oid \notin Range(self.objects)
             THEN Gets(Err(msg), gets, log \o << msg >>)
        ELSE IF oid = SUBMODULE_TIP_MARKER
             THEN Gets(Ok(fetch_todo), gets, log \o << "Ommitting submodule _" >>)
        ELSE LET git_obj == chain_get(oid, env)
             IN  IF ~git_obj.ok THEN Gets(git_obj, gets + 1, log)
                 ELSE enumerate_for_fetch_loop(self,
                          rest \o FetchChildren(git_obj.val.metadata),
                          fetch_todo \cup {oid}, env, gets + 1, log)

enumerate_for_fetch(self, oid, env) ==
    enumerate_for_fetch_loop(self, << oid >>, {}, env, 0, << >>)

(***************************************************************************)
(* enumerate_for_push: the objects below obj present in the local          *)
(* repository and missing from the index, and the submodule tips met.      *)
(***************************************************************************)
\* commit.parents() stops at the first parent it cannot look up
RECURSIVE FoundParents(_, _)
FoundParents(parents, odb) ==
    IF parents = << >> \/ Head(parents) \notin odb THEN << >>
    ELSE << Head(parents) >> \o FoundParents(Tail(parents), odb)

SubmoduleEntries(o) ==
    { TreeEntries(o)[i].id : i \in { j \in 1..Len(TreeEntries(o)) :
                                        TreeEntries(o)[j].kind = "Commit" } }

ObjectEntries(o) ==
    SelectSeq(TreeEntries(o), LAMBDA e : e.kind # "Commit")

EntryIds(entries) == [ i \in 1..Len(entries) |-> entries[i].id ]

\* mutant: no object counts as already uploaded
AlreadyInRepoData_never(self, obj) == FALSE

\* self.objects.contains(&obj.id().to_string())
AlreadyInRepoData(self, obj) == obj \in Range(self.objects)

\* the lines written for the entries of a tree, up to the first entry that
\* cannot be looked up
RECURSIVE EntryLines(_, _)
EntryLines(entries, odb) ==
    IF entries = << >> THEN << >>
    ELSE IF Head(entries).kind = "Commit"
         THEN << "Skipping submodule at _" >> \o EntryLines(Tail(entries), odb)
    ELSE << "Tree _: Pushing tree entry _ (_)" >> \o
         (IF Head(entries).id \in odb THEN EntryLines(Tail(entries), odb) ELSE << >>)

RECURSIVE enumerate_for_push_loop(_, _, _, _, _, _)
enumerate_for_push_loop(self, stack, push_todo, submodules, odb, log) ==
    IF stack = << >>
    THEN Logged(Ok([ push_todo |-> push_todo, submodules |-> submodules ]), log)
    ELSE
    LET obj  == Last(stack)
        rest == Front(stack)
    IN  IF AlreadyInRepoData(self, obj)
        THEN enumerate_for_push_loop(self, rest, push_todo, submodules, odb,
                 log \o << "Object _ already in RepoData" >>)
        ELSE IF obj \in push_todo
        THEN enumerate_for_push_loop(self, rest, push_todo, submodules, odb,
                 log \o << "Object _ already in state" >>)
        ELSE
        CASE Kind(obj) = "Commit" ->
                IF CommitTree(obj) \notin odb
                THEN Logged(Err("object not found"), log \o << "[_] Counting _ _" >>)
                ELSE enumerate_for_push_loop(self,
                        rest \o << CommitTree(obj) >> \o FoundParents(CommitParents(obj), odb),
                        push_todo \cup {obj}, submodules, odb,
                        log \o << "[_] Counting _ _", "Commit _: Handling tree _" >>
                            \o [ i \in 1..Len(FoundParents(CommitParents(obj), odb)) |->
                                    "Commit _: Pushing parent commit _" ])
          [] Kind(obj) = "Tree" ->
                IF \E e \in Range(ObjectEntries(obj)) : e.id \notin odb
                THEN Logged(Err("object not found"),
                            log \o << "[_] Counting _ _" >> \o EntryLines(TreeEntries(obj), odb))
                ELSE enumerate_for_push_loop(self,
                        rest \o EntryIds(ObjectEntries(obj)),
                        push_todo \cup {obj}, submodules \cup SubmoduleEntries(obj), odb,
                        log \o << "[_] Counting _ _" >> \o EntryLines(TreeEntries(obj), odb))
          [] Kind(obj) = "Tag" ->
                IF TagTarget(obj) \notin odb
                THEN Logged(Err("object not found"), log \o << "[_] Counting _ _" >>)
                ELSE enumerate_for_push_loop(self, rest \o << TagTarget(obj) >>,
                        push_todo \cup {obj}, submodules, odb,
                        log \o << "[_] Counting _ _" >>)
          [] OTHER ->
                enumerate_for_push_loop(self, rest, push_todo \cup {obj}, submodules, odb,
                        log \o << "[_] Counting _ _" >>)

enumerate_for_push(self, obj, odb) ==
    enumerate_for_push_loop(self, << obj >>, {}, {}, odb, << >>)

(***************************************************************************)
(* State.                                                                  *)
(***************************************************************************)
VARIABLES
    pc,           \* position of the helper: "none" (no process), "idle" (at
                  \* read_line), "upload", "mint", "swap" (inside push)
    exit,         \* how the last helper process ended: "", "ok", "err"
    clone,        \* the local repository the running helper was started in
    remote_repo,  \* the session's in-memory RepoData
    cmd,          \* the command being served (or last served)
    work,         \* locals of the push in progress
    stdout,       \* lines written to standard output for the current command
    stderr,       \* lines written to standard error for the current command
    ipf_storage,  \* ledger: the IPFs minted
    ips_data,     \* ledger: IPF ids held by the repository's IP set
    ipfs,         \* CAS: the blobs stored
    odb,          \* per clone: OIDs present in the local object database
    local_refs,   \* per clone: local ref name -> OID
    pre,          \* history: RepoData, IP set and local repository when the
                  \* command was read, and the fetch served just before it
    calls,        \* history: calls issued by the current command
    status,       \* history: "", "running", "ok", "error" (error response
                  \* written), "fatal" (the handler returned Err to the loop)
    hist,         \* history: pushed (a swap has committed), other (the RepoData
                  \* another session has published since this one started)
    n             \* number of commands read so far

vars == << pc, exit, clone, remote_repo, cmd, work, stdout, stderr, ipf_storage,
           ips_data, ipfs, odb, local_refs, pre, calls, status, hist, n >>

(***************************************************************************)
(* A line written to standard error is represented by the text of its      *)
(* eprintln!, with `_` in place of an object id, an object type, a ref     *)
(* name, a counter, a duration or a debug rendering; an error message is   *)
(* written in full.                                                        *)
(***************************************************************************)
\* what the runtime writes when main returns Err
ExitLine == "Error: _"


ledger_vars == << ipf_storage, ips_data, ipfs >>
local_vars  == << odb, local_refs >>

Main == "refs/heads/main"
Old  == "refs/heads/old"
TagV == "refs/tags/v1"
TagL == "refs/tags/lw"
Nope == "refs/heads/nope"
Dev  == "refs/heads/dev"

\* the refspecs git may hand to `push`, as token lists
RefArgs ==
    { << Main, ":", Main >>, << "+", Main, ":", Main >>, << ":", Main >>,
      << Old, ":", Main >>, << TagV, ":", TagV >>, << TagL, ":", TagL >>,
      << Dev, ":", Dev >>, << Nope, ":", Main >> }

NoCmd  == [ op |-> "none", force |-> FALSE, src |-> "", dst |-> "" ]
NoWork == [ obj |-> "", missing_objects |-> {}, oids |-> {}, submodules |-> {},
            ipf_id_list |-> << >>,
            new_repo_data |-> NoIpf, old_repo_data |-> NoIpf ]
\* efetch: runs of enumerate_for_fetch; put_obj, put_repo: uploads of an
\* object and of the RepoData; mint, swap: ledger calls; of a fetch: cas_get
\* downloads, odb_write writes to the object database, bad_write writes whose
\* hash differed from the declared OID, faults failures met
NoCalls == [ efetch |-> 0, put_obj |-> 0, put_repo |-> 0, mint |-> 0, swap |-> 0,
             cas_get |-> 0, odb_write |-> 0, bad_write |-> 0, faults |-> 0 ]

\* the snapshot taken when a command is read in clone c of a session whose
\* RepoData is rd; fetched names the fetch that has just succeeded, if any,
\* pushed the dst and the tip of the push that has just succeeded, if any
NoFetch == << >>
NoPush  == << >>
Snapshot(rd, c, fetched, pushed) ==
    [ remote_repo |-> rd, ips_data |-> ips_data, odb |-> odb[c],
      local_refs |-> local_refs[c], fetched |-> fetched, pushed |-> pushed ]

FullOdb == Oids
BaseOdb == {"b1", "t1", "c1"}

Env(net) == [ odb |-> odb[clone], ips_data |-> ips_data, ipf_storage |-> ipf_storage,
              ipfs |-> ipfs, net |-> net ]

(***************************************************************************)
(* git(): start of a helper process, get_repo, then the command loop.      *)
(***************************************************************************)
\* (a helper is started only while a command is left for it to read)
StartSession(c, net) ==
    /\ pc = "none"
    /\ n < MaxCmds
    /\ LET r == get_repo([ Env(net) EXCEPT !.odb = odb[c] ])
       IN  /\ clone' = c
           /\ IF r.ok
              THEN /\ remote_repo' = r.val
                   /\ pc' = "idle"
                   /\ exit' = ""
              ELSE /\ remote_repo' = EmptyRepoData
                   /\ pc' = "none"
                   /\ exit' = "err"
    /\ cmd' = NoCmd
    /\ work' = NoWork
    /\ stdout' = << >>
    /\ stderr' = IF pc' = "idle" THEN << >> ELSE << ExitLine >>
    /\ calls' = NoCalls
    /\ status' = ""
    /\ pre' = Snapshot(remote_repo', c, NoFetch, NoPush)
    /\ hist' = [ hist EXCEPT !.other = EmptyRepoData ]
    /\ UNCHANGED << ledger_vars, local_vars, n >>

\* bookkeeping common to every command read by the loop
ReadLine(c) ==
    /\ pc = "idle"
    /\ n < MaxCmds
    /\ cmd' = c
    /\ pre' = Snapshot(remote_repo, clone,
                        IF cmd.op = "fetch" /\ status = "ok"
                        THEN << cmd.src, cmd.dst >> ELSE NoFetch,
                        IF cmd.op = "push" /\ status = "ok" /\ cmd.src # ""
                        THEN << cmd.dst, work.obj >> ELSE NoPush)
    /\ hist' = hist

(***************************************************************************)
(* push(): refspec parsing (main.rs) and RepoData::push_ref_from_str up to *)
(* its first upload.                                                       *)
(***************************************************************************)
RECURSIVE IndexOf(_, _, _)
IndexOf(s, t, i) ==
    IF i > Len(s) THEN i ELSE IF s[i] = t THEN i ELSE IndexOf(s, t, i + 1)

RECURSIVE Join(_)
Join(s) == IF s = << >> THEN "" ELSE Head(s) \o Join(Tail(s))

\* ref_arg.split(':'), starts_with('+'), &first_half[1..]
ParseRefspec(ref_arg) ==
    LET k          == IndexOf(ref_arg, ":", 1)
        first_half == SubSeq(ref_arg, 1, k - 1)
        after      == SubSeq(ref_arg, k + 1, Len(ref_arg))
        second     == SubSeq(after, 1, IndexOf(after, ":", 1) - 1)
        force      == first_half # << >> /\ Head(first_half) = "+"
    IN  [ op    |-> "push",
          force |-> force,
          src   |-> IF force THEN Join(Tail(first_half)) ELSE Join(first_half),
          dst   |-> Join(second) ]

\* find_reference(ref_src)?.resolve()?, then peel to a tag, else to a commit
\* (the peel to a commit is evaluated in both cases)
ResolveRef(ref_src, refs, objs) ==
    IF ref_src \notin DOMAIN refs THEN Err("reference not found")
    ELSE LET t == refs[ref_src]
         IN  IF t \notin objs THEN Err("object not found")
             ELSE IF Kind(t) = "Tag"
                  THEN IF TagTarget(t) \in objs /\ Kind(TagTarget(t)) = "Commit"
                       THEN Ok(t) ELSE Err("object not found")
             ELSE IF Kind(t) = "Commit" THEN Ok(t)
             ELSE Err("invalid object type")

BehindMsg ==
    "There's objects in the index not present in the local repo - a pull is needed"

\* mutant: the force flag is not consulted
ChecksBehind_ignoring_force(self, ref_dst, force) == ref_dst \in DOMAIN self.refs

\* the test that decides whether the work-ahead check runs
ChecksBehind(self, ref_dst, force) == ~force /\ ref_dst \in DOMAIN self.refs

\* mutant: missing objects are reported but the push goes on
IsBehind_never(missing_objects) == FALSE

\* the test on the result of the work-ahead check
IsBehind(missing_objects) == missing_objects # {}

\* tag: "deleted" (empty source), "error", or "todo" (objects counted)
\* log: the lines written to standard error
PushRefPrelude(self, ref_src, ref_dst, force, refs, env) ==
    LET out(tag, rd, e, obj, todo, ef, log) ==
            [ tag |-> tag, self |-> rd, err |-> e, obj |-> obj,
              oids |-> todo.push_todo, submodules |-> todo.submodules,
              efetch |-> ef.calls, missing_objects |-> ef.missing, log |-> log ]
        unchecked == [ calls |-> 0, missing |-> {} ]
        none == [ push_todo |-> {}, submodules |-> {} ]
    IN
    IF ref_src = ""
    THEN out("deleted", [ self EXCEPT !.refs = RefsRemove(self.refs, ref_dst) ],
             "", "", none, unchecked,
             << "Removing ref _ from index" >> \o
             (IF ref_dst \in DOMAIN self.refs THEN << >>
              ELSE << "Nothing to delete, ref _ not part of the index ref set",
                      "Available refs:", "_" >>))
    ELSE
    LET obj == ResolveRef(ref_src, refs, env.odb)
    IN  IF ~obj.ok THEN out("error", self, obj.err, "", none, unchecked, << >>)
        ELSE
        LET checks  == ChecksBehind(self, ref_dst, force)
            missing == IF checks THEN enumerate_for_fetch(self, self.refs[ref_dst], env)
                       ELSE Logged(Ok({}), << >>)
            ef      == [ calls   |-> IF checks THEN 1 ELSE 0,
                         missing |-> IF missing.ok THEN missing.val ELSE {} ]
            log1    == << "_ dereferenced to _ _",
                          IF force THEN "This push will be forced"
                          ELSE "Checking for work ahead of us..." >> \o missing.log
        IN  IF ~missing.ok THEN out("error", self, missing.err, obj.val, none, ef, log1)
            ELSE IF IsBehind(missing.val)
                 THEN out("error", self, BehindMsg, obj.val, none, ef,
                          log1 \o << "There's _ objects in _ not present locally. Please fetch first or force-push.",
                                     "Missing objects:", "_" >>)
            ELSE
            LET todo == enumerate_for_push(self, obj.val, env.odb)
                log2 == log1 \o todo.log
            IN  IF ~todo.ok THEN out("error", self, todo.err, obj.val, none, ef, log2)
                ELSE out("todo", self, "", obj.val, todo.val, ef,
                         log2 \o << "Counting objects took _._s",
                                    "Counted _ object(s) for push (took _._):", "_",
                                    "Counted _ submodule stub(s) for push:", "_" >>)

\* mutant: the submodule markers are added and the ref is left as it was
FinishPushRef_no_ref(self, submodules, ref_dst, obj) ==
    [ refs    |-> self.refs,
      objects |-> self.objects \o
                  [ i \in 1..Cardinality(submodules) |-> SUBMODULE_TIP_MARKER ] ]

\* the tail of push_ref_from_str: submodule markers, then the ref
FinishPushRef(self, submodules, ref_dst, obj) ==
    [ refs    |-> RefsInsert(self.refs, ref_dst, obj),
      objects |-> self.objects \o
                  [ i \in 1..Cardinality(submodules) |-> SUBMODULE_TIP_MARKER ] ]

\* mutant: the message is written without its quotes
ErrorLine_unquoted(dst, e) == "error " \o dst \o " " \o e

\* the lines println! writes in push()
OkLine(dst)       == "ok " \o dst
ErrorLine(dst, e) == "error " \o dst \o " \"" \o e \o "\""

ReadPush(ref_arg, net) ==
    LET c == ParseRefspec(ref_arg)
        r == PushRefPrelude(remote_repo, c.src, c.dst, c.force,
                            local_refs[clone], Env(net))
    IN  /\ ReadLine(c)
        /\ net \/ r # PushRefPrelude(remote_repo, c.src, c.dst, c.force,
                                     local_refs[clone], Env(TRUE))
        /\ calls' = [ NoCalls EXCEPT !.efetch = r.efetch ]
        /\ stderr' = (IF c.force THEN << "THIS PUSH WILL BE FORCED" >> ELSE << >>) \o r.log
        /\ n' = n + 1
        /\ CASE r.tag = "deleted" ->
                   /\ remote_repo' = r.self
                   /\ work' = NoWork
                   /\ pc' = "mint"
                   /\ stdout' = << >>
                   /\ status' = "running"
             [] r.tag = "error" ->
                   /\ remote_repo' = remote_repo
                   /\ work' = [ NoWork EXCEPT !.missing_objects = r.missing_objects ]
                   /\ pc' = "idle"
                   /\ stdout' = << ErrorLine(c.dst, r.err), "" >>
                   /\ status' = "error"
             [] OTHER ->
                   /\ work' = [ NoWork EXCEPT !.obj = r.obj, !.oids = r.oids,
                                              !.submodules = r.submodules ]
                   /\ stdout' = << >>
                   /\ status' = "running"
                   /\ IF r.oids = {}
                      THEN /\ remote_repo' = FinishPushRef(r.self, r.submodules, c.dst, r.obj)
                           /\ pc' = "mint"
                      ELSE /\ remote_repo' = r.self
                           /\ pc' = "upload"
        /\ UNCHANGED << exit, clone, ledger_vars, local_vars >>

(***************************************************************************)
(* Uploading: GitObject::chain_add for each counted object, in the         *)
(* arbitrary iteration order of the HashSet.                               *)
(***************************************************************************)
\* mutant: the reference is minted and the blob is not stored
MintBlob_unstored(label, blob, store, storage, how) ==
    IF how # "ok"
    THEN [ ok |-> FALSE, ipfs |-> store, ipf_storage |-> storage, ipf_id |-> NoIpf ]
    ELSE LET digest == DigestOfCid(CidOfBlob(blob))
             id == [ metadata |-> label, data |-> digest,
                     serial |-> 1 + Cardinality({ x \in storage :
                                     x.metadata = label /\ x.data = digest }) ]
         IN  [ ok |-> TRUE, ipfs |-> store,
               ipf_storage |-> storage \cup {id}, ipf_id |-> id ]

\* ipfs.add then ipf.mint(label, digest); how: "ok", "add_fails", "mint_fails"
MintBlob(label, blob, store, storage, how) ==
    CASE how = "add_fails" ->
            [ ok |-> FALSE, ipfs |-> store, ipf_storage |-> storage, ipf_id |-> NoIpf ]
      [] how = "mint_fails" ->
            [ ok |-> FALSE, ipfs |-> store \cup {blob}, ipf_storage |-> storage, ipf_id |-> NoIpf ]
      [] OTHER ->
            LET digest == DigestOfCid(CidOfBlob(blob))
                id == [ metadata |-> label, data |-> digest,
                        serial |-> 1 + Cardinality({ x \in storage :
                                        x.metadata = label /\ x.data = digest }) ]
            IN  [ ok |-> TRUE, ipfs |-> store \cup {blob},
                  ipf_storage |-> storage \cup {id}, ipf_id |-> id ]

chain_add(git_obj, store, storage, how) ==
    MintBlob(git_obj.git_hash, git_obj, store, storage, how)

\* one iteration of the loop of push_git_objects: the index after it
PushedObjects(self, oid) == [ self EXCEPT !.objects = InsertOid(@, oid) ]

\* the exit taken when a handler's error reaches the `?` of the command loop
Die ==
    /\ pc' = "none"
    /\ exit' = "err"
    /\ status' = "fatal"

\* the lines one iteration of the loop of push_git_objects writes to
\* standard error, chain_add included
UploadLines(how) ==
    << "Current object: _ at _", "Pushing _ _", "Let's push data to IPFS!" >> \o
    (IF how = "add_fails" THEN << >> ELSE << "Let's send data to the chain!" >>) \o
    (IF how # "ok" THEN << >>
     ELSE << "Let's find the event!", "Minted IPF with id: _",
             "[_/_] _ _ uploaded to _" >>)

PushGitObject(oid, how) ==
    /\ pc = "upload"
    /\ oid \in work.oids
    /\ stderr' = stderr \o
                  IF oid \in Range(remote_repo.objects)
                  THEN << "Current object: _ at _",
                          "push_objects: Object _ already in RepoData" >>
                  ELSE UploadLines(how)
    /\ IF oid \in Range(remote_repo.objects)
       THEN /\ how = "ok"
            /\ UNCHANGED << ledger_vars, calls, stdout, status >>
            /\ work' = [ work EXCEPT !.oids = @ \ {oid} ]
            /\ IF work'.oids = {}
               THEN /\ remote_repo' = FinishPushRef(remote_repo, work.submodules, cmd.dst, work.obj)
                    /\ pc' = "mint"
               ELSE UNCHANGED << remote_repo, pc >>
       ELSE LET r == chain_add(GitObjectOf(oid), ipfs, ipf_storage, how)
            IN  /\ ipfs' = r.ipfs
                /\ ipf_storage' = r.ipf_storage
                /\ UNCHANGED ips_data
                /\ calls' = [ calls EXCEPT !.put_obj = @ + 1,
                                           !.mint = IF how = "add_fails" THEN @ ELSE @ + 1 ]
                /\ IF r.ok
                   THEN /\ work' = [ work EXCEPT !.oids = @ \ {oid},
                                                 !.ipf_id_list = InsertIpf(@, r.ipf_id) ]
                        /\ UNCHANGED << stdout, status >>
                        /\ IF work'.oids = {}
                           THEN /\ remote_repo' = FinishPushRef(PushedObjects(remote_repo, oid),
                                                       work.submodules, cmd.dst, work.obj)
                                /\ pc' = "mint"
                           ELSE /\ remote_repo' = PushedObjects(remote_repo, oid)
                                /\ pc' = "upload"
                   ELSE /\ UNCHANGED << remote_repo, work >>
                        /\ stdout' = << ErrorLine(cmd.dst, TransportError), "" >>
                        /\ status' = "error"
                        /\ pc' = "idle"
    /\ UNCHANGED << exit, clone, cmd, local_vars, pre, hist, n >>

(***************************************************************************)
(* RepoData::mint_return_new_old_id, then the batched remove/append.       *)
(***************************************************************************)
\* mutant: the RepoData is minted without being stored on the CAS
mint_return_new_old_id_unstored(self, store, storage, ips, how) ==
    LET m == MintBlob("RepoData", self, store, storage,
                      IF how = "read_fails" THEN "ok" ELSE how)
        i == FindIpf(ips, m.ipf_storage, "RepoData", 1)
    IN  [ ok  |-> m.ok /\ how = "ok",
          ipfs |-> store, ipf_storage |-> m.ipf_storage,
          new |-> m.ipf_id,
          old |-> IF i = 0 THEN NoIpf ELSE ips[i] ]

\* how: "ok", "add_fails", "mint_fails", "read_fails" (the IP set query fails)
mint_return_new_old_id(self, store, storage, ips, how) ==
    LET m == MintBlob("RepoData", self, store, storage,
                      IF how = "read_fails" THEN "ok" ELSE how)
        i == FindIpf(ips, m.ipf_storage, "RepoData", 1)
    IN  [ ok  |-> m.ok /\ how = "ok",
          ipfs |-> m.ipfs, ipf_storage |-> m.ipf_storage,
          new |-> m.ipf_id,
          old |-> IF i = 0 THEN NoIpf ELSE ips[i] ]

MintRepoData(how) ==
    /\ pc = "mint"
    /\ LET r == mint_return_new_old_id(remote_repo, ipfs, ipf_storage, ips_data, how)
       IN  /\ ipfs' = r.ipfs
           /\ ipf_storage' = r.ipf_storage
           /\ calls' = [ calls EXCEPT !.put_repo = @ + 1,
                                      !.mint = IF how = "add_fails" THEN @ ELSE @ + 1 ]
           /\ IF r.ok
              THEN /\ work' = [ work EXCEPT !.new_repo_data = r.new, !.old_repo_data = r.old ]
                   /\ pc' = "swap"
                   /\ stderr' = stderr \o
                         (IF r.old # NoIpf
                          THEN << "Removing old Repo Data with IPF ID: _" >> ELSE << >>) \o
                         << "Appending new objects and repo data to repository under IPS ID: _" >>
                   /\ UNCHANGED << exit, status >>
              ELSE /\ Die
                   /\ stderr' = stderr \o << ExitLine >>
                   /\ UNCHANGED work
    /\ UNCHANGED << clone, remote_repo, cmd, stdout, ips_data, local_vars, pre, hist, n >>

\* mutant: the old RepoData IPF is left in the IP set
SwapCalls_keep_old(old_repo_data, pack, new_repo_data) ==
    << [ call |-> "append", assets |-> pack \o << new_repo_data >> ] >>

\* the calls put into the batch: remove the old RepoData IPF if there is one,
\* then append the object IPFs and the new RepoData IPF
SwapCalls(old_repo_data, pack, new_repo_data) ==
    (IF old_repo_data # NoIpf
       THEN << [ call |-> "remove", assets |-> << old_repo_data >> ] >>
       ELSE << >>)
    \o << [ call |-> "append", assets |-> pack \o << new_repo_data >> ] >>

ApplyCall(ips, c) ==
    IF c.call = "remove"
    THEN SelectSeq(ips, LAMBDA id : id \notin Range(c.assets))
    ELSE ips \o c.assets

RECURSIVE ApplyCalls(_, _)
ApplyCalls(ips, cs) ==
    IF cs = << >> THEN ips ELSE ApplyCalls(ApplyCall(ips, Head(cs)), Tail(cs))

\* mutant: utility.batch, which keeps the calls applied before the failing one
batch_all_partial(ips, cs, committed) ==
    IF committed THEN ApplyCalls(ips, cs) ELSE ApplyCalls(ips, SubSeq(cs, 1, Len(cs) - 1))

\* utility.batch_all: every call of the batch is applied, or none is
batch_all(ips, cs, committed) ==
    IF committed THEN ApplyCalls(ips, cs) ELSE ips

Swap(committed) ==
    /\ pc = "swap"
    /\ ips_data' = batch_all(ips_data,
                       SwapCalls(work.old_repo_data, work.ipf_id_list, work.new_repo_data),
                       committed)
    /\ calls' = [ calls EXCEPT !.swap = @ + 1 ]
    /\ IF committed
       THEN /\ stderr' = stderr \o
                          << "New objects successfully appended to on-chain repository!" >>
            /\ stdout' = << OkLine(cmd.dst), "" >>
            /\ status' = "ok"
            /\ pc' = "idle"
            /\ hist' = [ hist EXCEPT !.pushed = TRUE ]
            /\ UNCHANGED exit
       ELSE /\ Die
            /\ stderr' = stderr \o << ExitLine >>
            /\ UNCHANGED << stdout, hist >>
    /\ UNCHANGED << clone, remote_repo, cmd, work, ipf_storage, ipfs, local_vars, pre, n >>

(***************************************************************************)
(* fetch(): RepoData::fetch_to_ref_from_str and fetch_git_objects.         *)
(***************************************************************************)
\* ref_name.starts_with("refs/tags"), over the ref names of the scenario
StartsWithRefsTags(name) == name \in {TagV, TagL}

\* odb.write(kind, data): the OID git computes for these bytes under this kind
OdbWrite(kind, data) == IF Kind(data[2]) = kind THEN data[2] ELSE "bad"

\* mutant: the ref is set whatever the tip and the name are
TipAction_always_set(tip_kind, ref_name) == "set"

\* the match on the tip's type once the objects are in place:
\* "set", "skip" (ref left to git) or "error"
TipAction(tip_kind, ref_name) ==
    CASE tip_kind = "Commit" /\ StartsWithRefsTags(ref_name) -> "skip"
      [] tip_kind = "Commit" -> "set"
      [] tip_kind = "Tag"    -> "skip"
      [] OTHER               -> "error"

\* the end of fetch_to_ref_from_str and of fetch(): objs is the local object
\* database after fetch_git_objects
FinishFetch(objs) ==
    LET act == IF cmd'.src \in objs THEN TipAction(Kind(cmd'.src), cmd'.dst) ELSE "error"
    IN  IF act = "error"
        THEN /\ Die
             /\ UNCHANGED << local_refs, stdout >>
        ELSE /\ local_refs' = IF act = "set"
                              THEN [ local_refs EXCEPT ![clone] = RefsInsert(@, cmd'.dst, cmd'.src) ]
                              ELSE local_refs
             /\ stdout' = << "" >>
             /\ status' = "ok"
             /\ pc' = "idle"
             /\ UNCHANGED exit

\* the lines the end of fetch_to_ref_from_str writes to standard error
FinishLines(sha, name, objs) ==
    LET act == IF sha \in objs THEN TipAction(Kind(sha), name) ELSE "error"
    IN  CASE act = "error" ->
                (IF sha \in objs
                 THEN << "New tip turned out to be a _ after fetch" >> ELSE << >>)
                \o << ExitLine >>
          [] act = "set" -> << "Fetched _ for _ OK." >>
          [] Kind(sha) = "Commit" ->
                << "Not setting ref for lightweight tag _", "Fetched _ for _ OK." >>
          [] OTHER -> << "Not setting ref for tag _", "Fetched _ for _ OK." >>

\* the commands `fetch <sha> <name>` git may send: a ref listed by the helper
\* with the OID listed for it, or HEAD with the OID of the main branch
HeadRef == "HEAD"
FetchArgs(refs) ==
    { << refs[name], name >> : name \in DOMAIN refs }
    \cup { << refs[name], HeadRef >> : name \in DOMAIN refs \cap {Main} }

\* mutant: the RepoData is moved into the handler and the session is left
\* with an empty one
SharedBorrow_moved(self) == EmptyRepoData

\* fetch() and the methods it calls take the session's RepoData by shared
\* reference (remote_repo: &RepoData, &self): the RepoData after the call
SharedBorrow(self) == self

ReadFetch(sha, name, net) ==
    /\ << sha, name >> \in FetchArgs(remote_repo.refs)
    /\ ReadLine([ op |-> "fetch", force |-> FALSE, src |-> sha, dst |-> name ])
    /\ LET r == enumerate_for_fetch(remote_repo, sha, Env(net))
       IN  /\ net \/ r # enumerate_for_fetch(remote_repo, sha, Env(TRUE))
           /\ calls' = [ NoCalls EXCEPT !.efetch = 1, !.cas_get = r.gets,
                                        !.faults = IF net THEN 0 ELSE 1 ]
           /\ stderr' = << "Fetching _ for _" >> \o r.log \o
                  (IF ~r.ok THEN << ExitLine >>
                   ELSE << "Counting objects took _._s",
                           "Counted _ object(s) for fetch:", "_" >> \o
                        (IF r.val = {} THEN FinishLines(sha, name, odb[clone]) ELSE << >>))
           /\ IF ~r.ok
              THEN /\ Die
                   /\ work' = NoWork
                   /\ UNCHANGED << local_refs, stdout >>
              ELSE /\ work' = [ NoWork EXCEPT !.obj = sha, !.oids = r.val ]
                   /\ IF r.val = {}
                      THEN FinishFetch(odb[clone])
                      ELSE /\ pc' = "fetch"
                           /\ status' = "running"
                           /\ stdout' = << >>
                           /\ UNCHANGED << exit, local_refs >>
    /\ n' = n + 1
    /\ remote_repo' = SharedBorrow(remote_repo)
    /\ UNCHANGED << clone, ledger_vars, odb >>

\* bytes that are the content of no object of the scenario
CorruptData == << "raw", "x1" >>

\* what chain_get hands to fetch_git_objects; got: "ok", "fail" (the query or
\* the download fails), "corrupt" (the blob the ledger points at decodes to
\* an object whose bytes are not those of git_hash)
Download(git_hash, env, got) ==
    LET git_obj == chain_get(git_hash, [ env EXCEPT !.net = got # "fail" ])
    IN  IF git_obj.ok /\ got = "corrupt"
        THEN Ok([ git_obj.val EXCEPT !.raw_data_ipfs_hash = CorruptData ])
        ELSE git_obj

\* mutant: the OID of the written object is not compared
Inconsistent_never(written_oid, oid) == FALSE

\* the test on the OID the object database computed for the written bytes
Inconsistent(written_oid, oid) == written_oid # oid

\* one iteration of the loop of fetch_git_objects
FetchGitObject(oid, got) ==
    /\ pc = "fetch"
    /\ oid \in work.oids
    /\ cmd' = cmd
    /\ LET git_obj == Download(oid, Env(TRUE), got)
           count(w, b) == [ calls EXCEPT !.cas_get = @ + 1,
                                         !.odb_write = @ + w, !.bad_write = @ + b,
                                         !.faults = IF got = "ok" THEN @ ELSE @ + 1 ]
           done(objs) == IF work.oids = {oid}
                         THEN FinishLines(cmd.src, cmd.dst, objs) ELSE << >>
       IN  IF ~git_obj.ok
           THEN /\ Die
                /\ calls' = count(0, 0)
                /\ stderr' = stderr \o << "[_/_] Fetching object _", ExitLine >>
                /\ UNCHANGED << work, odb, local_refs, stdout >>
           ELSE IF PresentLocally(oid, odb[clone])
           THEN /\ got = "ok"
                /\ work' = [ work EXCEPT !.oids = @ \ {oid} ]
                /\ calls' = count(0, 0)
                /\ stderr' = stderr \o
                      << "[_/_] Fetching object _",
                         "fetch objects: Object _ already present locally!" >>
                      \o done(odb[clone])
                /\ UNCHANGED odb
                /\ IF work'.oids = {}
                   THEN FinishFetch(odb[clone])
                   ELSE UNCHANGED << pc, exit, status, local_refs, stdout >>
           ELSE LET written_oid == OdbWrite(git_obj.val.metadata.type,
                                            git_obj.val.raw_data_ipfs_hash)
                IN  /\ odb' = [ odb EXCEPT ![clone] = @ \cup {written_oid} ]
                    /\ calls' = count(1, IF written_oid # oid THEN 1 ELSE 0)
                    /\ IF Inconsistent(written_oid, oid)
                       THEN /\ Die
                            /\ stderr' = stderr \o
                                  << "[_/_] Fetching object _",
                                     "Object tree inconsistency detected: fetched _ from _, but write result hashes to _",
                                     ExitLine >>
                            /\ UNCHANGED << work, local_refs, stdout >>
                       ELSE /\ work' = [ work EXCEPT !.oids = @ \ {oid} ]
                            /\ stderr' = stderr \o
                                  << "[_/_] Fetching object _", "Fetched object _ to _" >>
                                  \o done(odb'[clone])
                            /\ IF work'.oids = {}
                               THEN FinishFetch(odb'[clone])
                               ELSE UNCHANGED << pc, exit, status, local_refs, stdout >>
    /\ remote_repo' = SharedBorrow(remote_repo)
    /\ UNCHANGED << clone, ledger_vars, pre, hist, n >>

(***************************************************************************)
(* The other arms of the command loop.                                     *)
(***************************************************************************)
NameRank(name) ==
    CASE name = "HEAD" -> 1 [] name = Dev -> 2 [] name = Main -> 3 [] name = Nope -> 4
      [] name = Old -> 5 [] name = TagL -> 6 [] OTHER -> 7

RECURSIVE SortedNames(_)
SortedNames(S) ==
    IF S = {} THEN << >>
    ELSE LET m == CHOOSE x \in S : \A y \in S : NameRank(x) <= NameRank(y)
         IN  << m >> \o SortedNames(S \ {m})

\* mutant: the name is written before the OID
ListLines_name_first(refs) ==
    LET names == SortedNames(DOMAIN refs)
    IN  [ i \in 1..Len(names) |-> names[i] \o " " \o refs[names[i]] ] \o << "" >>

\* list(): one line per entry of refs, in key order, then a blank line
ListLines(refs) ==
    LET names == SortedNames(DOMAIN refs)
    IN  [ i \in 1..Len(names) |-> refs[names[i]] \o " " \o names[i] ] \o << "" >>

\* mutant: the unknown-command notice is written with println!
UnknownOutput_println == [ out |-> << "unknown command", "" >>, err |-> << >> ]

\* eprintln!("unknown command\n"): the notice and an empty line on standard
\* error, nothing on standard output
UnknownOutput == [ out |-> << >>, err |-> << "unknown command", "" >> ]

\* a command that is served in one step and returns Ok(()) to the loop
Served(op, lines, errs) ==
    /\ ReadLine([ NoCmd EXCEPT !.op = op ])
    /\ stdout' = lines
    /\ stderr' = errs
    /\ status' = "ok"
    /\ calls' = NoCalls
    /\ work' = NoWork
    /\ n' = n + 1
    /\ UNCHANGED << pc, exit, clone, remote_repo, ledger_vars, local_vars >>

ReadCapabilities == Served("capabilities", << "push", "fetch", "" >>, << >>)
ReadList         == Served("list", ListLines(remote_repo.refs), << >>)
ReadEmptyLine    == Served("empty", << >>, << >>)
ReadUnknown      == Served("unknown", UnknownOutput.out, UnknownOutput.err)

\* read_line returns an empty string: return Ok(()); the process ends and
\* with it the session's RepoData and the record kept of its last command
ReadEof ==
    /\ pc = "idle"
    /\ pc' = "none"
    /\ exit' = "ok"
    /\ remote_repo' = EmptyRepoData
    /\ cmd' = NoCmd
    /\ work' = NoWork
    /\ stdout' = << >>
    /\ stderr' = << >>
    /\ calls' = NoCalls
    /\ status' = ""
    /\ pre' = Snapshot(EmptyRepoData, clone, NoFetch, NoPush)
    /\ hist' = [ hist EXCEPT !.other = EmptyRepoData ]
    /\ UNCHANGED << clone, ledger_vars, local_vars, n >>

(***************************************************************************)
(* Initial states.                                                         *)
(***************************************************************************)
\* the repository before its first push: nothing on the ledger or the CAS
Blank == [ repo |-> EmptyRepoData, ipfs |-> {}, ipf_storage |-> {}, ips_data |-> << >> ]
\* the uploads of push_git_objects for the objects of the sequence oids
RECURSIVE UploadAll(_, _)
UploadAll(st, oids) ==
    IF oids = << >> THEN st
    ELSE LET r == chain_add(GitObjectOf(Head(oids)), st.ipfs, st.ipf_storage, "ok")
         IN  UploadAll([ st EXCEPT !.ipfs = r.ipfs, !.ipf_storage = r.ipf_storage,
                                   !.repo = PushedObjects(@, Head(oids)),
                                   !.pack = InsertIpf(@, r.ipf_id) ],
                       Tail(oids))

\* the repository after clone A has pushed tip to dst and every call has
\* succeeded
Pushed(st, dst, tip) ==
    LET todo == enumerate_for_push(st.repo, tip, FullOdb).val
        up   == UploadAll([ repo |-> st.repo, ipfs |-> st.ipfs,
                            ipf_storage |-> st.ipf_storage, pack |-> << >> ],
                          SortedSeq(todo.push_todo))
        rd   == FinishPushRef(up.repo, todo.submodules, dst, tip)
        m    == mint_return_new_old_id(rd, up.ipfs, up.ipf_storage, st.ips_data, "ok")
    IN  [ repo |-> rd, ipfs |-> m.ipfs, ipf_storage |-> m.ipf_storage,
          ips_data |-> batch_all(st.ips_data, SwapCalls(m.old, up.pack, m.new), TRUE) ]

\* A second helper process, started by another git in clone A while this
\* session waits at read_line: it reads the manifest with get_repo, serves
\* `push src:dst` for a source that resolves to tip with every call
\* succeeding, and exits.  What this session has kept of its last command is
\* dropped, as the ledger it was recorded against has moved.
OtherSession(dst, tip) ==
    /\ pc = "idle"
    /\ n < MaxCmds
    /\ hist.other = EmptyRepoData
    /\ LET st == Pushed([ repo |-> get_repo(Env(TRUE)).val, ipfs |-> ipfs,
                          ipf_storage |-> ipf_storage, ips_data |-> ips_data ], dst, tip)
       IN  /\ get_repo(Env(TRUE)).ok
           /\ ipfs' = st.ipfs
           /\ ipf_storage' = st.ipf_storage
           /\ ips_data' = st.ips_data
           /\ hist' = [ pushed |-> TRUE, other |-> st.repo ]
    /\ cmd' = NoCmd
    /\ work' = NoWork
    /\ stdout' = << >>
    /\ stderr' = << >>
    /\ calls' = NoCalls
    /\ status' = ""
    /\ pre' = [ Snapshot(remote_repo, clone, NoFetch, NoPush) EXCEPT !.ips_data = ips_data' ]
    /\ n' = n + 1
    /\ UNCHANGED << pc, exit, clone, remote_repo, local_vars >>

\* the repository after clone A has pushed its main branch, its two tags and
\* its dev branch
Published ==
    Pushed(Pushed(Pushed(Pushed(Blank, Main, "c2"), TagV, "g1"), TagL, "c0"), Dev, "c0")
\* the helper is not running; the repository is either blank or has been
\* published by clone A in earlier runs of the helper
Init ==
    /\ pc = "none"
    /\ exit = ""
    /\ clone = "A"
    /\ remote_repo = EmptyRepoData
    /\ cmd = NoCmd
    /\ work = NoWork
    /\ stdout = << >>
    /\ stderr = << >>
    /\ \E st \in {Blank, Published} :
          /\ ipf_storage = st.ipf_storage
          /\ ips_data = st.ips_data
          /\ ipfs = st.ipfs
          /\ hist = [ pushed |-> st # Blank, other |-> EmptyRepoData ]
    /\ odb = [ c \in Clones |->
          CASE c = "A" -> FullOdb [] c = "B" -> BaseOdb [] OTHER -> {} ]
    /\ local_refs = [ c \in Clones |->
          CASE c = "A" -> (Main :> "c2") @@ (Old :> "c1") @@ (TagV :> "g1") @@ (TagL :> "c0")
                          @@ (Dev :> "c0")
            [] c = "B" -> (Main :> "c1")
            [] OTHER   -> EmptyRefs ]
    /\ pre = Snapshot(EmptyRepoData, "A", NoFetch, NoPush)
    /\ calls = NoCalls
    /\ status = ""
    /\ n = 0

Next ==
    \/ \E c \in Clones, net \in BOOLEAN : StartSession(c, net)
    \/ \E ref_arg \in RefArgs, net \in BOOLEAN : ReadPush(ref_arg, net)
    \/ \E oid \in Oids, how \in {"ok", "add_fails", "mint_fails"} : PushGitObject(oid, how)
    \/ \E how \in {"ok", "add_fails", "mint_fails", "read_fails"} : MintRepoData(how)
    \/ \E committed \in BOOLEAN : Swap(committed)
    \/ \E sha \in Oids, name \in {Main, Dev, TagV, TagL, HeadRef}, net \in BOOLEAN :
          ReadFetch(sha, name, net)
    \/ \E oid \in Oids, got \in {"ok", "fail", "corrupt"} : FetchGitObject(oid, got)
    \/ ReadCapabilities
    \/ ReadList
    \/ ReadEmptyLine
    \/ ReadUnknown
    \/ ReadEof
    \/ OtherSession(Main, "c2")

Spec == Init /\ [][Next]_vars

(***************************************************************************)
(* The loops of enumerate_for_push and enumerate_for_fetch, one iteration  *)
(* at a time.  SpecTraverse starts a traversal on an index, a local object *)
(* database and, for a fetch, a ledger whose object metadata is arbitrary  *)
(* (a corrupt manifest may declare a cycle); work holds the loop's locals: *)
(* stack, todo (push_todo or fetch_todo), submodules, and as history the   *)
(* number of times each OID was inserted into todo, the number of          *)
(* iterations and the number of pops that met an OID already in todo.      *)
(***************************************************************************)
MaxIter == 12       \* iterations of a traversal loop

\* mutant: the set of scheduled OIDs is not consulted
AlreadyInState_never(todo, oid) == FALSE

\* push_todo.contains(&obj.id()), fetch_todo.contains(&oid)
AlreadyInState(todo, oid) == oid \in todo

\* the lookups enumerate_for_push makes for the children of obj succeed
ChildrenFound(obj, objs) ==
    CASE Kind(obj) = "Commit" -> CommitTree(obj) \in objs
      [] Kind(obj) = "Tree"   -> \A e \in Range(ObjectEntries(obj)) : e.id \in objs
      [] Kind(obj) = "Tag"    -> TagTarget(obj) \in objs
      [] OTHER                -> TRUE

\* the objects enumerate_for_push pushes on its stack for obj, in order
PushChildren(obj, objs) ==
    CASE Kind(obj) = "Commit" /\ CommitTree(obj) \in objs ->
            << CommitTree(obj) >> \o FoundParents(CommitParents(obj), objs)
      [] Kind(obj) = "Tree" /\ \A e \in Range(ObjectEntries(obj)) : e.id \in objs ->
            EntryIds(ObjectEntries(obj))
      [] Kind(obj) = "Tag" /\ TagTarget(obj) \in objs -> << TagTarget(obj) >>
      [] OTHER -> << >>

\* the locals of a traversal that starts at root
Traversal(root) ==
    [ stack |-> << root >>, todo |-> {}, submodules |-> {}, result |-> "",
      scheduled |-> [ o \in Oids |-> 0 ], iter |-> 0, skipped |-> 0 ]

\* the loop is left when the stack is empty or an iteration has returned
LoopExit(w) == IF w.result # "" \/ w.stack = << >> THEN "counted" ELSE pc

\* `while let Some(obj) = stack.pop()` of enumerate_for_push
enumerate_for_push_step ==
    /\ pc = "count_push"
    /\ work.iter < MaxIter
    /\ LET obj  == Last(work.stack)
           rest == Front(work.stack)
           objs == odb[clone]
       IN  IF AlreadyInRepoData(remote_repo, obj) \/ AlreadyInState(work.todo, obj)
           THEN work' = [ work EXCEPT !.stack = rest, !.iter = @ + 1, !.skipped = @ + 1 ]
           ELSE IF ~ChildrenFound(obj, objs)
           THEN work' = [ work EXCEPT !.stack = rest, !.iter = @ + 1,
                                      !.todo = @ \cup {obj},
                                      !.scheduled[obj] = @ + 1,
                                      !.result = "object not found" ]
           ELSE work' = [ work EXCEPT !.stack = rest \o PushChildren(obj, objs),
                                      !.iter = @ + 1,
                                      !.todo = @ \cup {obj},
                                      !.scheduled[obj] = @ + 1,
                                      !.submodules = @ \cup (IF Kind(obj) = "Tree"
                                                             THEN SubmoduleEntries(obj)
                                                             ELSE {}) ]
    /\ pc' = LoopExit(work')
    /\ UNCHANGED << exit, clone, remote_repo, cmd, stdout, stderr, ledger_vars,
                    local_vars, pre, calls, status, hist, n >>

\* `while let Some(oid) = stack.pop()` of enumerate_for_fetch; net = FALSE
\* makes the chain_get of the iteration fail
enumerate_for_fetch_step(net) ==
    /\ pc = "count_fetch"
    /\ work.iter < MaxIter
    /\ LET oid  == Last(work.stack)
           rest == Front(work.stack)
           git_obj == chain_get(oid, Env(net))
       IN  IF PresentLocally(oid, odb[clone]) \/ AlreadyInState(work.todo, oid)
           THEN /\ net
                /\ work' = [ work EXCEPT !.stack = rest, !.iter = @ + 1, !.skipped = @ + 1 ]
           ELSE IF oid \notin Range(remote_repo.objects)
           THEN /\ net
                /\ work' = [ work EXCEPT !.stack = rest, !.iter = @ + 1,
                                         !.result = "not in the index" ]
           ELSE IF oid = SUBMODULE_TIP_MARKER
           THEN /\ net
                /\ work' = [ work EXCEPT !.stack = rest, !.iter = @ + 1,
                                         !.result = "submodule" ]
           ELSE IF ~git_obj.ok
           THEN work' = [ work EXCEPT !.stack = rest, !.iter = @ + 1,
                                      !.todo = @ \cup {oid},
                                      !.scheduled[oid] = @ + 1,
                                      !.result = git_obj.err ]
           ELSE work' = [ work EXCEPT !.stack = rest \o FetchChildren(git_obj.val.metadata),
                                      !.iter = @ + 1,
                                      !.todo = @ \cup {oid},
                                      !.scheduled[oid] = @ + 1 ]
    /\ pc' = LoopExit(work')
    /\ UNCHANGED << exit, clone, remote_repo, cmd, stdout, stderr, ledger_vars,
                    local_vars, pre, calls, status, hist, n >>

\* the local object databases a push traversal is started on: every object,
\* the older history, and a database that lacks the blob of its trees
PushOdbs == { FullOdb, BaseOdb, FullOdb \ {"b1"} }

\* the OIDs of the manifests a fetch traversal is started on, and the
\* metadata a manifest may declare for each of them
FetchOids   == {"c1", "g1", "t1"}
CommitMetas ==
    { [ type |-> "Commit", parent_git_hashes |-> P, tree_git_hash |-> t ] :
        P \in {{}} \cup { {x} : x \in FetchOids }, t \in FetchOids }
TagMetas    == { [ type |-> "Tag", target_git_hash |-> t ] : t \in FetchOids }
TreeMetas   == { [ type |-> "Tree", entry_git_hashes |-> E ] : E \in SUBSET FetchOids }

\* the GitObject a manifest holds for oid, with the metadata m
Declared(oid, m) ==
    [ git_hash |-> oid, raw_data_ipfs_hash |-> OdbData(oid), metadata |-> m ]

\* the CAS and ledger after the objects of the sequence objs were uploaded
\* and their references appended to the IP set
RECURSIVE Manifest(_, _)
Manifest(st, objs) ==
    IF objs = << >> THEN st
    ELSE LET r == chain_add(Head(objs), st.ipfs, st.ipf_storage, "ok")
         IN  Manifest([ ipfs |-> r.ipfs, ipf_storage |-> r.ipf_storage,
                        ips_data |-> st.ips_data \o << r.ipf_id >> ], Tail(objs))

TraverseInit ==
    /\ exit = ""
    /\ clone = "A"
    /\ stdout = << >>
    /\ stderr = << >>
    /\ local_refs = [ c \in Clones |-> EmptyRefs ]
    /\ calls = NoCalls
    /\ status = "running"
    /\ hist = [ pushed |-> FALSE, other |-> EmptyRepoData ]
    /\ n = 0
    /\ \/ \E objs \in PushOdbs, tip \in Oids, index \in SUBSET Oids :
             /\ tip \in objs
             /\ pc = "count_push"
             /\ cmd = [ op |-> "push", force |-> FALSE, src |-> tip, dst |-> Main ]
             /\ work = Traversal(tip)
             /\ odb = [ c \in Clones |-> IF c = "A" THEN objs ELSE {} ]
             /\ remote_repo = [ refs |-> EmptyRefs, objects |-> SortedSeq(index) ]
             /\ ipfs = {} /\ ipf_storage = {} /\ ips_data = << >>
       \/ \E mc \in CommitMetas, mg \in TagMetas, mt \in TreeMetas, root \in FetchOids,
             objs \in { {}, {"c1"}, {"t1"} },
             index \in { FetchOids, FetchOids \ {"t1"} } :
             LET st == Manifest([ ipfs |-> {}, ipf_storage |-> {}, ips_data |-> << >> ],
                                << Declared("c1", mc), Declared("g1", mg),
                                   Declared("t1", mt) >>)
             IN  /\ pc = "count_fetch"
                 /\ cmd = [ op |-> "fetch", force |-> FALSE, src |-> root, dst |-> Main ]
                 /\ work = Traversal(root)
                 /\ odb = [ c \in Clones |-> IF c = "A" THEN objs ELSE {} ]
                 /\ remote_repo = [ refs |-> EmptyRefs, objects |-> SortedSeq(index) ]
                 /\ ipfs = st.ipfs
                 /\ ipf_storage = st.ipf_storage
                 /\ ips_data = st.ips_data
    /\ pre = Snapshot(remote_repo, "A", NoFetch, NoPush)

TraverseNext ==
    \/ enumerate_for_push_step
    \/ \E net \in BOOLEAN : enumerate_for_fetch_step(net)

\* the loops are sequential code: an iteration that can run does run
SpecTraverse == TraverseInit /\ [][TraverseNext]_vars /\ WF_vars(TraverseNext)

(***************************************************************************)
(* Properties.                                                             *)
(***************************************************************************)
\* the (label, digest) pairs read_manifest returns for an IP set
ManifestPairs(ips) == [ i \in 1..Len(ips) |-> IpfInfo(ipf_storage, ips[i]) ]

RepoDataCount(ips) ==
    Cardinality({ i \in 1..Len(ips) : IpfInfo(ipf_storage, ips[i]).metadata = "RepoData" })

PushFinished == cmd.op = "push" /\ status \in {"ok", "error", "fatal"}
PushFailed   == cmd.op = "push" /\ status \in {"error", "fatal"}

\* the ledger and local repository as they were when the command was read
PreEnv == [ Env(TRUE) EXCEPT !.ips_data = pre.ips_data ]

\* the source of the push being served resolves in the local repository
Resolves == cmd.src # "" /\ ResolveRef(cmd.src, local_refs[clone], odb[clone]).ok
Tip      == ResolveRef(cmd.src, local_refs[clone], odb[clone]).val

\* a non-forced push to a dst whose remote tip has objects missing locally
StalePush ==
    /\ cmd.op = "push" /\ ~cmd.force /\ cmd.src # ""
    /\ cmd.dst \in DOMAIN pre.remote_repo.refs
    /\ LET m == enumerate_for_fetch(pre.remote_repo, pre.remote_repo.refs[cmd.dst], PreEnv)
       IN  m.ok /\ m.val # {}

\* C1: a push that fails at any step leaves the (label, digest) pairs of the
\* repository on the ledger as they were when the command was read.
C1_FailedPushLeavesLedger ==
    PushFailed => ManifestPairs(ips_data) = ManifestPairs(pre.ips_data)

\* a push of a repository that already holds references failed at the swap
C1_Witness ==
    PushFailed /\ calls.swap = 1 /\ pre.ips_data # << >> /\ work.ipf_id_list # << >>

\* C2: once a push has succeeded, every ledger state holds exactly one pair
\* labelled "RepoData".
C2_OneRepoData == hist.pushed => RepoDataCount(ips_data) = 1

\* a swap has just replaced an earlier RepoData reference
C2_Witness ==
    /\ cmd.op = "push" /\ status = "ok" /\ calls.swap = 1
    /\ RepoDataCount(pre.ips_data) = 1 /\ ips_data # pre.ips_data

\* C3 (as claimed): after a failed push the in-memory RepoData equals its
\* value when the command was read.
C3_RolledBack == PushFailed => remote_repo = pre.remote_repo

\* C4 (as claimed): after a failed push or fetch the dispatcher is back at
\* reading the next command.
C4_SessionSurvives ==
    (cmd.op \in {"push", "fetch"} /\ status \in {"error", "fatal"}) => pc = "idle"

ErrorMessages ==
    { BehindMsg, TransportError, "reference not found", "object not found",
      "invalid object type", ErrorWrap("git_hash ipf not found") }
    \cup { "Could not find object " \o o \o " in the index" : o \in Oids \cup {"s1"} }

\* C5 (as claimed): a push that has ended wrote one line `ok dst` or
\* `error dst "msg"` and a blank line, and no command is read while a push
\* is being served.
C5_PushAnswered ==
    /\ PushFinished =>
          \/ stdout = << "ok " \o cmd.dst, "" >>
          \/ \E e \in ErrorMessages :
                stdout = << "error " \o cmd.dst \o " \"" \o e \o "\"", "" >>
    /\ (cmd.op = "push" /\ status = "running") => pc \in {"upload", "mint", "swap"}

\* C6: a non-forced push of a stale head ends with an error response, issues
\* no upload, mint or swap, and leaves the in-memory RepoData unchanged.
C6_StalePushRejected ==
    StalePush =>
        /\ status = "error" /\ pc \notin {"upload", "mint", "swap"}
        /\ Len(stdout) = 2 /\ stdout[1] # "ok " \o cmd.dst
        /\ calls.put_obj = 0 /\ calls.put_repo = 0 /\ calls.mint = 0 /\ calls.swap = 0
        /\ remote_repo = pre.remote_repo
        /\ ips_data = pre.ips_data

\* a stale push whose work-ahead check found missing objects
C6_Witness ==
    StalePush /\ Resolves /\ calls.efetch = 1 /\ status = "error"
    /\ work.missing_objects = {"c2"}

\* a stale push whose work-ahead check returned the missing objects
StaleRejected == StalePush /\ Resolves /\ work.missing_objects # {}

C8_ForcedSkipsCheck ==
    (cmd.op = "push" /\ cmd.force) =>
        /\ calls.efetch = 0
        /\ stdout # << "error " \o cmd.dst \o " \"" \o BehindMsg \o "\"", "" >>
        /\ (Resolves /\ status = "error") => calls.put_obj >= 1

\* a forced push over a remote tip that is missing locally went through
C8_Witness ==
    /\ cmd.op = "push" /\ cmd.force /\ status = "ok"
    /\ cmd.dst \in DOMAIN pre.remote_repo.refs
    /\ pre.remote_repo.refs[cmd.dst] \notin odb[clone]

\* a push whose dst already holds the tip its source resolves to
RepeatPush ==
    /\ cmd.op = "push" /\ Resolves
    /\ cmd.dst \in DOMAIN pre.remote_repo.refs
    /\ pre.remote_repo.refs[cmd.dst] = Tip

\* C9 (as claimed): a repeated push uploads no object and issues no swap.
C9_NoUploadNoSwap ==
    RepeatPush => calls.put_obj = 0 /\ calls.swap = 0

\* C9 (amended): a repeated push counts no object for upload and uploads
\* none; it still uploads and mints the RepoData and issues one swap.
C9_NoUploadOneSwap ==
    RepeatPush =>
        /\ pc # "upload" /\ work.oids = {} /\ calls.put_obj = 0
        /\ status # "error"
        /\ status = "ok" => calls.put_repo = 1 /\ calls.swap = 1

\* a repeated push has been answered with ok
C9_Witness == RepeatPush /\ status = "ok" /\ remote_repo = pre.remote_repo

\* the OIDs below o in the git object graph; gitlinks are not followed
RECURSIVE ReachableFrom(_)
ReachableFrom(o) ==
    {o} \cup
    CASE Kind(o) = "Commit" ->
            ReachableFrom(CommitTree(o)) \cup
            UNION { ReachableFrom(CommitParents(o)[i]) : i \in 1..Len(CommitParents(o)) }
      [] Kind(o) = "Tree" ->
            UNION { ReachableFrom(e.id) : e \in Range(ObjectEntries(o)) }
      [] Kind(o) = "Tag" -> ReachableFrom(TagTarget(o))
      [] OTHER -> {}

GitlinksBelow(o) ==
    UNION { SubmoduleEntries(t) : t \in { x \in ReachableFrom(o) : Kind(x) = "Tree" } }

\* C10 (as claimed): every OID reachable from a ref of the in-memory RepoData
\* is in objects with its blob on the CAS, and a gitlink below a ref is
\* covered by a submodule-tip marker.
C10_ManifestClosure ==
    \A name \in DOMAIN remote_repo.refs :
        /\ \A o \in ReachableFrom(remote_repo.refs[name]) :
              o \in Range(remote_repo.objects) /\ GitObjectOf(o) \in ipfs
        /\ GitlinksBelow(remote_repo.refs[name]) # {} =>
              SUBMODULE_TIP_MARKER \in Range(remote_repo.objects)

\* C11: when an object written into the local object database during a
\* fetch hashed to an OID other than the one declared for it, the fetch has
\* ended with an error, has written no terminating blank line, and the local
\* refs (the ref named by the command among them) are as they were when the
\* command was read.
C11_MismatchAborts ==
    (cmd.op = "fetch" /\ calls.bad_write > 0) =>
        /\ status = "fatal" /\ stdout = << >>
        /\ calls.bad_write = 1
        /\ local_refs[clone] = pre.local_refs

\* a fetch wrote two objects and the bytes of a third one were corrupt
C11_Witness ==
    /\ cmd.op = "fetch" /\ status = "fatal"
    /\ calls.bad_write = 1 /\ calls.odb_write = 3
    /\ cmd.dst \notin DOMAIN local_refs[clone]

\* the OIDs of the objects whose blob is on the CAS
Uploaded == { b.git_hash : b \in { x \in ipfs : "git_hash" \in DOMAIN x } }

\* C12 (as claimed): after a successful push whose traversal met a tree entry
\* of kind Commit, the OID of that entry is a key of RepoData.objects, next
\* to the marker "submodule-tip", and the entry was not uploaded.
C12_SubmoduleKeyed ==
    (cmd.op = "push" /\ status = "ok" /\ work.submodules # {}) =>
        /\ SUBMODULE_TIP_MARKER \in Range(remote_repo.objects)
        /\ \A s \in work.submodules :
              s \in Range(remote_repo.objects) /\ s \notin Uploaded

\* the session's RepoData lists every object below o, each of them can be
\* read back through the ledger, and the gitlinks below o have their marker
Closed(o) ==
    /\ \A x \in ReachableFrom(o) :
          x \in Range(remote_repo.objects) /\ chain_get(x, Env(TRUE)).ok
    /\ GitlinksBelow(o) # {} => SUBMODULE_TIP_MARKER \in Range(remote_repo.objects)

\* a fetch has ended without meeting a transport failure or a corrupt blob
FetchEnded == cmd.op = "fetch" /\ status \in {"ok", "fatal"} /\ calls.faults = 0

\* C13 (as claimed): a fetch of a tip whose trees contain a submodule entry,
\* from a manifest that lists every object below the tip, completes
\* successfully and leaves every non-submodule object below the tip in the
\* local object database.
C13_SubmoduleLeaf ==
    (FetchEnded /\ GitlinksBelow(cmd.src) # {} /\ Closed(cmd.src)) =>
        status = "ok" /\ ReachableFrom(cmd.src) \subseteq odb[clone]

\* every object below o is in the local object database of the running
\* clone, and the blob published for it carries the object's kind and the
\* raw bytes the pushing repository held for it
Materialized(o) ==
    \A x \in ReachableFrom(o) :
        /\ x \in odb[clone]
        /\ chain_get(x, Env(TRUE)).val.metadata.type = Kind(x)
        /\ chain_get(x, Env(TRUE)).val.raw_data_ipfs_hash = OdbData(x)

\* C14 (as claimed): a fetch of a pushed tip into an object database that
\* held none of the objects below it writes every one of them, with the OID,
\* the kind and the raw bytes it had when it was pushed.
C14_RoundTrip ==
    (FetchEnded /\ Closed(cmd.src) /\ pre.odb \cap ReachableFrom(cmd.src) = {}) =>
        /\ status = "ok"
        /\ Materialized(cmd.src)
        /\ calls.odb_write = Cardinality(ReachableFrom(cmd.src))

\* a fetch of the pair (sha, name) that the command just before it, in the
\* same session, fetched successfully
RepeatFetch == cmd.op = "fetch" /\ pre.fetched = << cmd.src, cmd.dst >>

\* C15: a fetch repeated right after a successful one downloads nothing,
\* writes nothing to the local object database and succeeds; and in every
\* fetch each write of an object with the declared OID added an OID that the
\* object database did not hold.
C15_FetchIdempotent ==
    /\ RepeatFetch =>
          /\ calls.cas_get = 0 /\ calls.odb_write = 0
          /\ odb[clone] = pre.odb
          /\ status = "ok"
    /\ cmd.op = "fetch" =>
          calls.odb_write - calls.bad_write =
              Cardinality((odb[clone] \ pre.odb) \cap Oids)

\* the second of two fetches of the same tip into a clone that lacked it
C15_Witness ==
    /\ RepeatFetch /\ status = "ok" /\ calls.efetch = 1
    /\ cmd.src \notin (IF clone = "B" THEN BaseOdb ELSE {})
    /\ clone # "A"

\* a fetch wrote objects next to objects left by an earlier fetch that failed
C15_Leftover ==
    /\ cmd.op = "fetch" /\ status = "ok" /\ calls.odb_write > 0
    /\ clone = "E" /\ pre.odb \cap ReachableFrom(cmd.src) # {}

\* a push with an empty source has gone past push_ref_from_str
DeletePush == cmd.op = "push" /\ cmd.src = "" /\ status # ""

\* C16: a push with an empty source leaves in RepoData.refs exactly the
\* entries it had under names other than dst, leaves RepoData.objects as it
\* was, and leaves the whole RepoData as it was when dst was not a key.
C16_DeleteOnlyDst ==
    DeletePush =>
        /\ DOMAIN remote_repo.refs = DOMAIN pre.remote_repo.refs \ {cmd.dst}
        /\ \A name \in DOMAIN remote_repo.refs :
              remote_repo.refs[name] = pre.remote_repo.refs[name]
        /\ remote_repo.objects = pre.remote_repo.objects
        /\ cmd.dst \notin DOMAIN pre.remote_repo.refs => remote_repo = pre.remote_repo

\* the main branch was deleted from a repository that also holds two tags
\* and another branch
C16_Witness ==
    /\ DeletePush /\ status = "ok"
    /\ cmd.dst \in DOMAIN pre.remote_repo.refs
    /\ DOMAIN remote_repo.refs = {TagV, TagL, Dev}

\* an empty-source push named a ref the repository does not have
C16_NothingToDelete ==
    DeletePush /\ status = "ok" /\ cmd.dst \notin DOMAIN pre.remote_repo.refs
    /\ pre.remote_repo.refs # EmptyRefs

C18_HeadFetchReturns ==
    (cmd.op = "fetch" /\ cmd.dst = HeadRef) =>
        /\ calls.efetch = 0 /\ calls.cas_get = 0 /\ calls.odb_write = 0
        /\ odb[clone] = pre.odb
        /\ local_refs[clone] = pre.local_refs

\* what the code does with it: the fetch of HEAD wrote the commit and set a
\* local ref named HEAD
C18_HeadFetched ==
    /\ cmd.op = "fetch" /\ cmd.dst = HeadRef /\ status = "ok"
    /\ calls.odb_write > 0
    /\ HeadRef \in DOMAIN local_refs[clone] /\ HeadRef \notin DOMAIN pre.local_refs

\* C19: a fetch that has materialized its objects has set the local ref
\* `name` to sha, and nothing else, exactly when the tip is a commit and the
\* name does not begin with refs/tags; otherwise (tag object, or commit under
\* a refs/tags name) the local refs are as they were.  No ref moves before
\* the objects are in place or when the fetch fails.
C19_RefSetByTip ==
    cmd.op = "fetch" =>
        local_refs[clone] =
            IF status = "ok" /\ Kind(cmd.src) = "Commit" /\ ~StartsWithRefsTags(cmd.dst)
            THEN RefsInsert(pre.local_refs, cmd.dst, cmd.src)
            ELSE pre.local_refs

\* a lightweight tag was fetched into a fresh clone: objects written, no ref
C19_Witness ==
    /\ cmd.op = "fetch" /\ status = "ok" /\ calls.odb_write = 3
    /\ Kind(cmd.src) = "Commit" /\ cmd.dst = TagL
    /\ local_refs[clone] = EmptyRefs

\* an annotated tag was fetched: objects written, no ref
C19_TagTip ==
    /\ cmd.op = "fetch" /\ status = "ok" /\ calls.odb_write > 0
    /\ Kind(cmd.src) = "Tag" /\ local_refs[clone] = pre.local_refs

\* a branch was fetched: the ref moved from c1 to c2
C19_BranchSet ==
    /\ cmd.op = "fetch" /\ status = "ok" /\ calls.odb_write > 0
    /\ cmd.dst = Main /\ Main \in DOMAIN pre.local_refs
    /\ pre.local_refs[Main] = "c1" /\ local_refs[clone][Main] = "c2"

\* the references the swap of the push being served appends
Appended == Range(work.ipf_id_list) \cup {work.new_repo_data}

\* the blob a reference points at is on the CAS
Stored(id) == IpfsHas(ipfs, generate_cid(id.data))

\* C20: when a push is about to issue its swap, and after it has issued it,
\* the blob of every reference the swap appends (each uploaded object and
\* the encoded RepoData) is on the CAS; and every reference held by the IP
\* set points at a blob on the CAS.
C20_StoredBeforeSwap ==
    /\ (cmd.op = "push" /\ (pc = "swap" \/ calls.swap > 0)) =>
          /\ \A id \in Appended : id \in ipf_storage /\ Stored(id)
          /\ remote_repo \in ipfs
    /\ \A i \in 1..Len(ips_data) : Stored(ips_data[i])

\* a push is about to swap in four object references and the RepoData
C20_Witness ==
    /\ cmd.op = "push" /\ pc = "swap" /\ calls.swap = 0
    /\ Len(work.ipf_id_list) = 4 /\ calls.put_obj = 4 /\ calls.put_repo = 1

\* C21: a list command has written, for each entry (name, oid) of the
\* session's RepoData.refs, the line `<oid> <name>` exactly once, nothing
\* else but a closing blank line, and has changed neither the RepoData nor
\* the ledger; when the command before it was a successful push, the line
\* of the pushed dst carries the pushed tip.
C21_ListShowsRefs ==
    cmd.op = "list" =>
        /\ Len(stdout) = Cardinality(DOMAIN remote_repo.refs) + 1
        /\ stdout[Len(stdout)] = ""
        /\ \A name \in DOMAIN remote_repo.refs :
              Cardinality({ i \in 1..Len(stdout) :
                  stdout[i] = remote_repo.refs[name] \o " " \o name }) = 1
        /\ remote_repo = pre.remote_repo
        /\ ips_data = pre.ips_data /\ calls = NoCalls
        /\ pre.pushed # NoPush =>
              \E i \in 1..Len(stdout) : stdout[i] = pre.pushed[2] \o " " \o pre.pushed[1]

\* a list right after a push that moved the main branch of a repository
\* that holds other refs
C21_Witness ==
    /\ cmd.op = "list" /\ pre.pushed = << Main, "c1" >>
    /\ Len(stdout) = 5 /\ stdout[2] = "c1 refs/heads/main"

\* C22 (as claimed): an unrecognized command is answered on standard output
\* with the line `unknown command` and a blank line, and the dispatcher goes
\* on reading.
C22_UnknownAnswered ==
    cmd.op = "unknown" => stdout = << "unknown command", "" >> /\ pc = "idle"

\* what the code does with it: the notice is on standard error, nothing is
\* on standard output, and the dispatcher goes on reading
C22_NoticeOnStderr ==
    /\ cmd.op = "unknown" /\ stdout = << >> /\ pc = "idle"
    /\ stderr = << "unknown command", "" >>

\* C23 (as claimed): a session that has read a command runs until end of
\* input, where it exits successfully; an empty line writes no response,
\* changes neither the RepoData, the ledger nor the local repository, and
\* leaves the dispatcher reading.
C23_EndsOnlyOnEof ==
    /\ cmd.op # "none" => pc # "none"
    /\ exit = "ok" => pc = "none"
    /\ cmd.op = "empty" =>
          /\ stdout = << >> /\ pc = "idle"
          /\ remote_repo = pre.remote_repo /\ ips_data = pre.ips_data
          /\ odb[clone] = pre.odb /\ local_refs[clone] = pre.local_refs
          /\ calls = NoCalls

\* an empty line was read after a push and the session is still reading
C23_EmptyLineRead ==
    /\ cmd.op = "empty" /\ pc = "idle" /\ n = 2 /\ stdout = << >>
    /\ pre.pushed # NoPush

\* the ref names a response line can carry
Dsts == {Main, TagV, TagL, Dev}

\* the response lines of the remote-helper protocol: a capability name,
\* `<oid> <name>`, `ok <dst>`, `error <dst> "<msg>"`, the blank terminator
ResponseLines ==
    {"", "push", "fetch"}
    \cup { o \o " " \o name : o \in Oids, name \in Dsts }
    \cup { "ok " \o dst : dst \in Dsts }
    \cup { "error " \o dst \o " \"" \o e \o "\"" : dst \in Dsts, e \in ErrorMessages }

\* C24: every line on standard output is a response line of the protocol,
\* and no line written to standard error shows up on standard output (a
\* blank line apart).
C24_StdoutValid ==
    \A i \in 1..Len(stdout) :
        /\ stdout[i] \in ResponseLines
        /\ stdout[i] \in Range(stderr) => stdout[i] = ""

\* a push was answered with ok after its progress went to standard error
C24_Witness ==
    /\ cmd.op = "push" /\ stdout = << "ok refs/heads/main", "" >>
    /\ "Let's push data to IPFS!" \in Range(stderr)
    /\ "New objects successfully appended to on-chain repository!" \in Range(stderr)

\* C25 (as claimed): a command that has failed has written a line to
\* standard error (the lines kept in stderr all precede the response).
C25_FailureOnStderr ==
    status \in {"error", "fatal"} => stderr # << >>

\* a failure that did write to standard error before its response
C25_BehindReported ==
    /\ cmd.op = "push" /\ status = "error"
    /\ "Missing objects:" \in Range(stderr)
    /\ Len(stdout) = 2

\* manifest closure of a RepoData: every OID reachable from one of its refs
\* is in objects with its blob on the CAS, and gitlinks have their marker
Closure(rd) ==
    \A name \in DOMAIN rd.refs :
        /\ \A o \in ReachableFrom(rd.refs[name]) :
              o \in Range(rd.objects) /\ GitObjectOf(o) \in ipfs
        /\ GitlinksBelow(rd.refs[name]) # {} => SUBMODULE_TIP_MARKER \in Range(rd.objects)

\* a push whose source resolved and whose objects were counted
Counting == cmd.op = "push" /\ work.obj # ""

\* what enumerate_for_push returned to the push being served
Counted == enumerate_for_push(pre.remote_repo, work.obj, odb[clone])

\* to-push is the set of OIDs below the tip that the RepoData lacks, and
\* submodules the gitlinks of the counted trees
CountedExactly ==
    /\ Counted.ok
    /\ Counted.val.push_todo = ReachableFrom(work.obj) \ Range(pre.remote_repo.objects)
    /\ Counted.val.submodules =
          UNION { SubmoduleEntries(t) : t \in { x \in Counted.val.push_todo : Kind(x) = "Tree" } }
    /\ work.oids \subseteq Counted.val.push_todo
    /\ work.submodules = Counted.val.submodules

\* C26 (as claimed): for a RepoData that satisfies manifest closure,
\* enumerate_for_push returns as to-push exactly the OIDs reachable from the
\* tip that are not in RepoData.objects, and as submodules exactly the
\* gitlinks of the trees it visited.
C26_CountsExactly ==
    (Counting /\ Closure(pre.remote_repo)) => CountedExactly

\* every object of the index has the objects below it in the index
IndexClosed(rd) ==
    \A o \in Range(rd.objects) \cap Oids : ReachableFrom(o) \subseteq Range(rd.objects)

\* what holds of the code: the same when the index is closed downwards, and
\* in every case to-push holds no OID of the index
C26_CountsExactlyBelowClosed ==
    Counting =>
        /\ Counted.ok
        /\ Counted.val.push_todo \cap Range(pre.remote_repo.objects) = {}
        /\ IndexClosed(pre.remote_repo) => CountedExactly

\* a push counted only the objects new to an index that held others
C26_CountedNew ==
    /\ Counting /\ pc = "upload" /\ work.oids = {"g1"}
    /\ Len(pre.remote_repo.objects) > 3 /\ calls.put_obj = 0

\* the local object database and IP set as they were when the command was
\* read
FetchEnv == [ Env(TRUE) EXCEPT !.odb = pre.odb, !.ips_data = pre.ips_data ]

\* the children an object's published metadata declares
MetaChildren(o) ==
    LET m == GitObjectOf(o).metadata
    IN  CASE m.type = "Commit" -> {m.tree_git_hash} \cup m.parent_git_hashes
          [] m.type = "Tag"    -> {m.target_git_hash}
          [] m.type = "Tree"   -> m.entry_git_hashes
          [] OTHER             -> {}

\* the OIDs reached from the set R through the declared children of OIDs
\* the RepoData lists, over OIDs missing from the object database objs
RECURSIVE MissingBelow(_, _, _)
MissingBelow(R, rd, objs) ==
    LET more == R \cup UNION { MetaChildren(o) \ objs : o \in R \cap Range(rd.objects) \cap Oids }
    IN  IF more = R THEN R ELSE MissingBelow(more, rd, objs)

Wanted == MissingBelow({cmd.src} \ pre.odb, pre.remote_repo, pre.odb)

\* C27: enumerate_for_fetch, when it succeeds, returns exactly the OIDs
\* missing from the local object database that are reached from the root
\* through declared children along locally missing objects, all of them
\* listed by RepoData.objects; when one of the OIDs so reached is not listed
\* it fails, and the fetch ends with an error without writing an object.
C27_FetchSetExact ==
    cmd.op = "fetch" =>
        LET r == enumerate_for_fetch(pre.remote_repo, cmd.src, FetchEnv)
        IN  /\ r.ok => /\ r.val = Wanted
                       /\ r.val \subseteq Range(pre.remote_repo.objects)
                       /\ r.val \cap pre.odb = {}
            /\ work.obj = cmd.src =>
                  /\ r.ok /\ work.oids \subseteq r.val
                  /\ (odb[clone] \ pre.odb) \cap Oids \subseteq r.val
            /\ ~(Wanted \subseteq Range(pre.remote_repo.objects)) =>
                  /\ ~r.ok
                  /\ status = "fatal" /\ work.obj = "" /\ odb[clone] = pre.odb

\* a fetch of the annotated tag into a clone that holds the older history
\* scheduled the tag and its commit and stopped at the objects present
C27_Witness ==
    /\ cmd.op = "fetch" /\ clone = "B" /\ pc = "fetch"
    /\ work.oids = {"c2", "g1"} /\ calls.cas_get = 2

\* a fetch failed on an OID that the RepoData does not list
C27_NotListed ==
    /\ cmd.op = "fetch" /\ status = "fatal" /\ calls.faults = 0
    /\ "Could not find object s1 in the index" \in Range(stderr)

\* C28 (as claimed): no local ref is dangling: every object below the OID
\* of a local ref, gitlinks apart, is in the clone's object database.
C28_NoDanglingRef ==
    \A c \in Clones : \A name \in DOMAIN local_refs[c] :
        ReachableFrom(local_refs[c][name]) \subseteq odb[c]

\* what the code does: a fetch found the tip left by an interrupted fetch,
\* downloaded nothing and set the ref, with the tip's tree missing
C28_DanglingSet ==
    /\ cmd.op = "fetch" /\ status = "ok" /\ calls.cas_get = 0
    /\ cmd.dst \notin DOMAIN pre.local_refs
    /\ cmd.dst \in DOMAIN local_refs[clone]
    /\ local_refs[clone][cmd.dst] = cmd.src
    /\ CommitTree(cmd.src) \notin odb[clone]

\* the RepoData the repository's "RepoData" pair points at
PublishedRepoData == get_repo(Env(TRUE))

\* the fetch path obtains the object o through the repository's IP set
Resolvable(o) ==
    chain_get(o, Env(TRUE)).ok /\ chain_get(o, Env(TRUE)).val.git_hash = o

\* C29 (as claimed): once a push has succeeded, every OID the published
\* RepoData lists, the submodule marker apart, is obtained by chain_get
\* through a reference held by the repository's IP set.
C29_ListedResolvable ==
    hist.pushed =>
        /\ PublishedRepoData.ok
        /\ \A o \in Range(PublishedRepoData.val.objects) \ {SUBMODULE_TIP_MARKER} :
              Resolvable(o)

\* what the code does: a retried push has published an index that lists an
\* object uploaded by the failed attempt, whose reference was minted and
\* never appended to the IP set
C29_OrphanListed ==
    /\ cmd.op = "push" /\ status = "ok" /\ pre.remote_repo.objects # << >>
    /\ pre.ips_data = << >>
    /\ cmd.src # "" /\ work.obj = "c2"
    /\ \E o \in Range(pre.remote_repo.objects) :
          /\ o \in Range(PublishedRepoData.val.objects)
          /\ \E id \in ipf_storage : id.metadata = o
          /\ ~Resolvable(o)

\* C30 (as claimed): when another session has published a RepoData since
\* this session read the manifest, a push of this session that is answered
\* with ok has published a RepoData that still holds the objects entries and
\* the refs (the pushed dst apart) of that RepoData.
C30_NoLostUpdate ==
    (cmd.op = "push" /\ status = "ok" /\ hist.other # EmptyRepoData) =>
        /\ Range(hist.other.objects) \subseteq Range(PublishedRepoData.val.objects)
        /\ \A name \in DOMAIN hist.other.refs \ {cmd.dst} :
              /\ name \in DOMAIN PublishedRepoData.val.refs
              /\ PublishedRepoData.val.refs[name] = hist.other.refs[name]

\* what the code does: the later push was answered with ok and the main
\* branch published by the other session is gone from the manifest
C30_Overwritten ==
    /\ cmd.op = "push" /\ status = "ok" /\ cmd.dst = Dev
    /\ Main \in DOMAIN hist.other.refs
    /\ PublishedRepoData.val = remote_repo
    /\ DOMAIN remote_repo.refs = {Dev}

\* a push with a source was answered with `ok dst`
PushedOk ==
    cmd.op = "push" /\ cmd.src # "" /\ status = "ok" /\ stdout = << OkLine(cmd.dst), "" >>

PushedNew == PushedOk /\ calls.put_obj > 0

\* the references the IP set gained and lost since the command was read
Gained == Range(ips_data) \ Range(pre.ips_data)
Lost   == Range(pre.ips_data) \ Range(ips_data)

\* the reference labelled "RepoData" the IP set held when the command was
\* read, if any
PreviousRepoData ==
    LET i == FindIpf(pre.ips_data, ipf_storage, "RepoData", 1)
    IN  IF i = 0 THEN {} ELSE { pre.ips_data[i] }

\* one swap removed the previous RepoData reference, if any, and nothing else
SwappedOnce ==
    /\ calls.swap = 1 /\ calls.put_repo = 1
    /\ Lost = PreviousRepoData
    /\ Len(ips_data) = Len(pre.ips_data) - Cardinality(Lost) + Cardinality(Gained)

\* C32 (as claimed): a successful push with new objects has recorded two
\* mints and one swap; the swap appended two references, one of them
\* labelled "RepoData", and removed the previous "RepoData" reference when
\* there was one and nothing otherwise.
C32_TwoMints ==
    PushedNew =>
        /\ calls.mint = 2
        /\ Cardinality(Gained) = 2
        /\ Cardinality({ id \in Gained : id.metadata = "RepoData" }) = 1
        /\ SwappedOnce

\* what the code does: a successful push with new objects has recorded one
\* mint for each object it counted, labelled with the object's OID, and one
\* mint labelled "RepoData", and one swap; the swap appended exactly those
\* references and removed the previous "RepoData" reference when there was
\* one and nothing otherwise
C32_MintPerObject ==
    PushedNew =>
        /\ Counted.ok
        /\ calls.put_obj = Cardinality(Counted.val.push_todo)
        /\ calls.mint = calls.put_obj + 1
        /\ Gained = Appended
        /\ { id.metadata : id \in Gained } = Counted.val.push_todo \cup {"RepoData"}
        /\ Cardinality(Gained) = calls.put_obj + 1
        /\ SwappedOnce

\* a push of three new objects to a repository that holds a RepoData
\* reference recorded four mints
C32_FourMints ==
    /\ PushedNew /\ calls.put_obj = 3 /\ calls.mint = 4
    /\ PreviousRepoData # {} /\ Cardinality(Gained) = 4 /\ Cardinality(Lost) = 1

\* the OIDs enumerate_for_push inserts into push_todo, in the order of their
\* insertion
RECURSIVE RecordedOrder(_, _, _, _)
RecordedOrder(self, stack, order, objs) ==
    IF stack = << >> THEN order
    ELSE IF AlreadyInRepoData(self, Last(stack)) \/ Last(stack) \in Range(order)
         THEN RecordedOrder(self, Front(stack), order, objs)
    ELSE RecordedOrder(self, Front(stack) \o PushChildren(Last(stack), objs),
                       order \o << Last(stack) >>, objs)

CountedOrder == RecordedOrder(pre.remote_repo, << work.obj >>, << >>, odb[clone])

\* C33 (as claimed): a push uploads the objects it counted in the order in
\* which enumerate_for_push recorded them, the tip first: at every moment of
\* the upload the objects already uploaded are the first ones of that order.
C33_UploadsInRecordedOrder ==
    (Counting /\ Counted.ok /\ (pc = "upload" \/ calls.put_obj > 0)) =>
        /\ Range(CountedOrder) = Counted.val.push_todo
        /\ \E k \in 0..Len(CountedOrder) :
              Counted.val.push_todo \ work.oids = Range(SubSeq(CountedOrder, 1, k))

\* what the code does: the blob was uploaded first, before the commit and
\* the tree that were recorded before it
C33_LeafFirst ==
    /\ Counting /\ pc = "upload" /\ calls.put_obj = 1
    /\ CountedOrder = << "c0", "t0", "b1" >>
    /\ work.oids = {"c0", "t0"}

\* the GitObject records of the trees the push being served has built and
\* uploaded
UploadedTrees ==
    IF ~(Counting /\ Counted.ok) THEN {}
    ELSE { b \in ipfs : /\ "git_hash" \in DOMAIN b
                        /\ b.metadata.type = "Tree"
                        /\ b.git_hash \in Counted.val.push_todo \ work.oids }

\* C34 (as claimed): the entry_git_hashes of every tree built for upload are
\* the OIDs of the tree's entries whose kind is not Commit, and hold the OID
\* of no submodule entry.
C34_NoGitlinkInMetadata ==
    \A b \in UploadedTrees :
        /\ b.metadata.entry_git_hashes = Range(EntryIds(ObjectEntries(b.git_hash)))
        /\ b.metadata.entry_git_hashes \cap SubmoduleEntries(b.git_hash) = {}

\* what the code does: a push to an empty repository uploaded the tree t1
\* with the OID of its gitlink s1 among its entry_git_hashes
C34_GitlinkInMetadata ==
    /\ cmd.op = "push" /\ pre.ips_data = << >> /\ calls.put_obj > 0
    /\ \E b \in UploadedTrees :
          /\ b.git_hash = "t1" /\ b = from_git_tree("t1")
          /\ b.metadata.entry_git_hashes = {"b1", "s1"}
          /\ work.submodules = {"s1"}

\* a traversal has left its loop
Traversed == pc = "counted"

\* C35: a traversal started on any of the local object databases, indexes
\* and manifests of SpecTraverse, a manifest whose metadata declares a cycle
\* included, leaves its loop; it inserts no OID into its todo set twice,
\* stays below MaxIter iterations, and when no iteration has returned early
\* it leaves the loop with an empty stack.
C35_TraversalsTerminate ==
    /\ <>Traversed
    /\ [](\A o \in Oids : work.scheduled[o] <= 1)
    /\ [](work.iter < MaxIter)
    /\ []((Traversed /\ work.result = "") => work.stack = << >>)

\* a fetch traversal of a manifest in which the tree t1 lists the commit c1
\* and c1 has the tree t1 met c1 a second time and ended with both scheduled
C35_Witness ==
    /\ Traversed /\ cmd.op = "fetch" /\ cmd.src = "c1" /\ work.result = ""
    /\ chain_get("t1", Env(TRUE)).val.metadata.entry_git_hashes = {"c1"}
    /\ chain_get("c1", Env(TRUE)).val.metadata.tree_git_hash = "t1"
    /\ work.todo = {"c1", "t1"} /\ work.skipped >= 1 /\ work.stack = << >>

\* C36: every step of a fetch command, whether the command goes on to
\* succeed or to fail, leaves the session's RepoData, the IPFs, the IP set
\* and the CAS as they were; and every step of a push, its behind-remote
\* check included, leaves the local object databases as they were.
C36_FetchWritesNeitherRepoDataNorLedger ==
    [][ /\ cmd'.op = "fetch" =>
              /\ remote_repo' = remote_repo
              /\ ipf_storage' = ipf_storage /\ ips_data' = ips_data /\ ipfs' = ipfs
        /\ cmd'.op = "push" => odb' = odb ]_vars

\* a fetch failed after it had written objects to the object database, and
\* the session holds the RepoData it held when the command was read
C36_Witness ==
    /\ cmd.op = "fetch" /\ status = "fatal" /\ calls.odb_write > 0
    /\ odb[clone] # pre.odb
    /\ remote_repo = pre.remote_repo /\ remote_repo.objects # << >>
    /\ ips_data = pre.ips_data /\ ips_data # << >>

====
